---- MODULE Spec2Model ----
(***************************************************************************)
(* The legacy Stratego engine of src/game.py: Game (the turn loop and the  *)
(* reward bookkeeping) and GameState (board, dead-piece tally, terminal    *)
(* check, move execution).                                                 *)
(*                                                                         *)
(* Python values are modelled as follows.  A scalar that may be None is a  *)
(* tuple: << >> is None and <<v>> is the value v.  A board cell that is    *)
(* None holds the record NoPiece.  A positional argument whose Python type *)
(* varies (check_terminal's flag_only and turn) is a tagged pair           *)
(* <<"bool", b>>, <<"int", n>>, <<"str", s>> or <<"none">>.                *)
(***************************************************************************)
EXTENDS Integers, Sequences, FiniteSets, TLC

(***************************************************************************)
(* Bounds of the model.                                                    *)
(***************************************************************************)
\* run_step is not called any more once Game.move_count exceeds this (Spec)
MaxMoveCount == 5
\* number of GameState.do_move calls explored by SpecState
MaxCalls == 3
\* run_step is not called any more once Game.move_count exceeds this (SpecLong)
LongMoveCount == 501
\* do_move is not called onto an own piece any more after this many do_move
\* calls (SpecCollide)
MaxCollide == 2
\* GameReplay.add_move is not called any more after this many rounds
MaxRounds == 3
\* the loop of the modular run_game is followed for this many run_step calls
MaxSteps == 3
\* get_action_rep is explored for every inventory up to this length
MaxInventory == 3
\* get_action_rep is called at most this often on one instance
MaxRepCalls == 2

(***************************************************************************)
(* Game definition (cythonized.utils.GameDef, board size "small").         *)
(***************************************************************************)
game_dim == 5

types_available == <<0, 1, 2, 2, 2, 3, 3, 10, 11, 11>>

obstacle_positions == {<<2, 2>>}

Idx == 0 .. (game_dim - 1)

Cells == Idx \X Idx

Teams == {0, 1}

\* the keys of Counter(types_available)
Ranks == {types_available[i] : i \in DOMAIN types_available}

\* Counter(types_available)[type_]
Inventory(type_) == Cardinality({i \in DOMAIN types_available : types_available[i] = type_})

\* utils.get_bm(): the battle matrix, attacker rank x defender rank
bm(att, def) ==
    IF def = 0 THEN 1
    ELSE IF def = 11 THEN (IF att = 3 THEN 1 ELSE -1)
    ELSE IF att = 1 /\ def = 10 THEN 1
    ELSE IF att > def THEN 1
    ELSE IF att = def THEN 0
    ELSE -1

\* the ranks get_bm() has a row for
Attackers == 1 .. 10

(***************************************************************************)
(* Python values.                                                          *)
(***************************************************************************)
None == << >>

Some(v) == <<v>>

PyBool(b) == <<"bool", b>>

PyInt(n) == <<"int", n>>

PyStr(s) == <<"str", s>>

PyNone == <<"none">>

\* bool(x) of a tagged value
Truthy(x) ==
    CASE x[1] = "bool" -> x[2]
      [] x[1] = "int" -> x[2] # 0
      [] x[1] = "str" -> x[2] # ""
      [] OTHER -> FALSE

(***************************************************************************)
(* pieces.Piece                                                            *)
(***************************************************************************)
NoPiece == [type |-> -1, team |-> -1, version |-> 0, position |-> <<-1, -1>>,
            hidden |-> FALSE, has_moved |-> FALSE]

\* pieces.Piece(type, team, position): hidden, not moved, version unset
Piece(type_, team, pos) ==
    [type |-> type_, team |-> team, version |-> 0, position |-> pos,
     hidden |-> TRUE, has_moved |-> FALSE]

\* Piece.change_position(pos)
change_position(piece, pos) == [piece EXCEPT !.position = pos]

(***************************************************************************)
(* Setups.  A setup is the row-major flattening of the agent's setup array *)
(* (row_offset x game_dim): entry k is a rank, or -1 for an empty entry.   *)
(* The array layout is the one _draw_random_setup uses: team 1's entry     *)
(* (i, j) stands on cell (i, j), team 0's on (game_dim-1-i, game_dim-1-j). *)
(***************************************************************************)
row_offset == IF game_dim = 5 THEN 2 ELSE IF game_dim = 7 THEN 3 ELSE 4

SetupPos(team, k) ==
    LET i == (k - 1) \div game_dim
        j == (k - 1) % game_dim
    IN  IF team = 1 THEN <<i, j>> ELSE <<game_dim - 1 - i, game_dim - 1 - j>>

\* the number of entries of rank type_ among the first k entries of a setup
RECURSIVE CountUpTo(_, _, _)
CountUpTo(setup, type_, k) ==
    IF k = 0 THEN 0
    ELSE CountUpTo(setup, type_, k - 1) + (IF setup[k] = type_ THEN 1 ELSE 0)

\* a setup holds the whole inventory
Complete(setup) == \A r \in Ranks : CountUpTo(setup, r, Len(setup)) = Inventory(r)

\* Game._build_board_from_setups
_build_board_from_setups(setup0, setup1) ==
    LET placed(team, setup, c) == {k \in DOMAIN setup : setup[k] # -1 /\ SetupPos(team, k) = c}
        piece_of(team, setup, k) ==
            [Piece(setup[k], team, SetupPos(team, k)) EXCEPT
                !.version = CountUpTo(setup, setup[k], k)]
    IN  [c \in Cells |->
            IF c \in obstacle_positions
              THEN [Piece(99, 99, c) EXCEPT !.hidden = FALSE]
            ELSE IF placed(1, setup1, c) # {}
              THEN piece_of(1, setup1, CHOOSE k \in placed(1, setup1, c) : TRUE)
            ELSE IF placed(0, setup0, c) # {}
              THEN piece_of(0, setup0, CHOOSE k \in placed(0, setup0, c) : TRUE)
            ELSE NoPiece]

(***************************************************************************)
(* utils.get_poss_moves(board, team): the legal moves of a team.  A move   *)
(* is <<from, to>>.  Flag (0), bomb (11) and obstacles never move; the     *)
(* scout (2) runs any number of free cells in a line; every other rank     *)
(* steps one cell; the target is empty or holds a piece of the other team. *)
(***************************************************************************)
Dirs == {<<1, 0>>, <<0, 1>>, <<-1, 0>>, <<0, -1>>}

Step(c, d, k) == <<c[1] + k * d[1], c[2] + k * d[2]>>

Reach(type_) == IF type_ = 2 THEN game_dim - 1 ELSE 1

\* the moves of the piece on cell c
piece_moves(board, c) ==
    {<<c, Step(c, x[1], x[2])>> : x \in
        {y \in Dirs \X (1 .. Reach(board[c].type)) :
            /\ Step(c, y[1], y[2]) \in Cells
            /\ \A i \in 1 .. (y[2] - 1) : board[Step(c, y[1], i)] = NoPiece
            /\ \/ board[Step(c, y[1], y[2])] = NoPiece
               \/ board[Step(c, y[1], y[2])].team = (board[c].team + 1) % 2}}

get_poss_moves(board, team) ==
    UNION {piece_moves(board, c) :
              c \in {x \in Cells : board[x].team = team /\ board[x].type \notin {0, 11, 99}}}

(***************************************************************************)
(* GameState.  A game state is the record                                  *)
(*   [board, dead_pieces, move_count, terminal, terminal_checked].         *)
(***************************************************************************)
\* any(self.dead_pieces): over the elements of the tuple (dict(), dict()) the
\* constructor starts with, over the keys 0, 1 of the dict it ends with
any_dead_pieces(dp) ==
    IF 0 \in DOMAIN dp
      THEN \E k \in DOMAIN dp : k # 0
      ELSE \E i \in DOMAIN dp : DOMAIN dp[i] # {}

\* sum([piece.team + 1 for piece in board.flatten() if piece is not None and piece.type == 0])
RECURSIVE SumTeams(_, _)
SumTeams(board, cs) ==
    IF cs = {} THEN 0
    ELSE LET c == CHOOSE x \in cs : TRUE
         IN  board[c].team + 1 + SumTeams(board, cs \ {c})

flags_on_board(board) == SumTeams(board, {c \in Cells : board[c].type = 0})

\* GameState.check_terminal, lines 298-310: the flag test
terminal_after_flags(st) ==
    IF ~any_dead_pieces(st.dead_pieces)
      THEN LET flags == flags_on_board(st.board)
           IN  IF flags # 3 THEN (IF flags = 1 THEN 1 ELSE -1) ELSE st.terminal
      ELSE IF st.dead_pieces[0][0] = 1 THEN 1
      ELSE IF st.dead_pieces[1][0] = 1 THEN -1
      ELSE st.terminal

\* GameState.check_terminal, lines 312-318: the test for a team without moves
terminal_after_moves(st, term, flag_only, turn) ==
    IF ~Truthy(flag_only)
      THEN LET t == IF turn = PyNone THEN 0 ELSE turn[2]
           IN  IF get_poss_moves(st.board, t) = {} THEN -2
               ELSE IF get_poss_moves(st.board, (t + 1) % 2) = {} THEN 2
               ELSE term
      ELSE term

\* GameState.check_terminal, lines 320-321: the move-count ceiling
terminal_after_ceiling(st, term) ==
    IF st.move_count # None /\ st.move_count[1] > 500 THEN 404 ELSE term

\* GameState.check_terminal(flag_only, turn)
check_terminal(st, flag_only, turn) ==
    [st EXCEPT
        !.terminal = terminal_after_ceiling(st,
                        terminal_after_moves(st, terminal_after_flags(st), flag_only, turn)),
        !.terminal_checked = TRUE]

\* GameState.__init__, lines 271-284: the tally of the pieces missing from the board
CountOnBoard(board, team_truthy, type_) ==
    Cardinality({c \in Cells : /\ board[c] # NoPiece
                               /\ (board[c].team # 0) = team_truthy
                               /\ board[c].type = type_})

initial_dead_pieces(board) ==
    LET pieces0 == [type_ \in Ranks |-> CountOnBoard(board, FALSE, type_)]
        pieces1 == [type_ \in Ranks |-> CountOnBoard(board, TRUE, type_)]
        \* zip((pieces0, pieces0), (0, 1))
        pcs == [team \in Teams |-> IF team = 0 THEN pieces0 ELSE pieces0]
    IN  [team \in Teams |-> [type_ \in Ranks |-> Inventory(type_) - pcs[team][type_]]]

\* GameState(board, move_count=mc)
GameState(board, mc) ==
    LET st0 == [board |-> board, dead_pieces |-> <<None, None>>, move_count |-> mc,
                terminal |-> 0, terminal_checked |-> FALSE]
        st1 == check_terminal(st0, PyBool(FALSE), PyNone)
    IN  [st1 EXCEPT !.terminal_checked = TRUE,
                    !.dead_pieces = initial_dead_pieces(board)]

\* GameState.update_board(pos, piece)
update_board(st, pos, piece) ==
    [st EXCEPT !.board[pos] = IF piece # NoPiece THEN change_position(piece, pos) ELSE piece,
               !.terminal_checked = FALSE]

\* fight with a tie that counts only the defender as dead
fight_TieCountsDefenderOnly(st, piece_att, piece_def) ==
    LET outcome == bm(piece_att.type, piece_def.type)
        dead(dp, p) == [dp EXCEPT ![p.team][p.type] = @ + 1]
    IN  [dead_pieces |->
            IF outcome = 1 THEN dead(st.dead_pieces, piece_def)
            ELSE IF outcome = 0 THEN dead(st.dead_pieces, piece_def)
            ELSE IF outcome = -1 THEN dead(st.dead_pieces, piece_att)
            ELSE st.dead_pieces,
         outcome |-> outcome]

\* GameState.fight(piece_att, piece_def): the tally after the fight and the outcome
fight(st, piece_att, piece_def) ==
    LET outcome == bm(piece_att.type, piece_def.type)
        dead(dp, p) == [dp EXCEPT ![p.team][p.type] = @ + 1]
    IN  [dead_pieces |->
            IF outcome = 1 THEN dead(st.dead_pieces, piece_def)
            ELSE IF outcome = 0 THEN dead(dead(st.dead_pieces, piece_def), piece_att)
            ELSE IF outcome = -1 THEN dead(st.dead_pieces, piece_att)
            ELSE st.dead_pieces,
         outcome |-> outcome]

\* do_move that reveals only the attacker in a fight
do_move_DefenderStaysHidden(st, move) ==
    LET from_ == move[1]
        to_ == move[2]
        st1 == [st EXCEPT !.board[from_].has_moved = TRUE]
    IN  IF st1.board[to_] # NoPiece
          THEN LET st2 == [st1 EXCEPT !.board[from_].hidden = FALSE]
                   f == fight(st2, st2.board[from_], st2.board[to_])
                   st3 == [st2 EXCEPT !.dead_pieces = f.dead_pieces]
               IN  [st |-> IF f.outcome = 1
                             THEN update_board(update_board(st3, to_, st3.board[from_]),
                                               from_, NoPiece)
                           ELSE IF f.outcome = 0
                             THEN update_board(update_board(st3, to_, NoPiece), from_, NoPiece)
                           ELSE update_board(update_board(st3, from_, NoPiece),
                                             to_, st3.board[to_]),
                    ret |-> Some(f.outcome)]
          ELSE [st |-> update_board(update_board(st1, to_, st1.board[from_]), from_, NoPiece),
                ret |-> None]

\* do_move that leaves a losing attacker on its cell
do_move_LoserStays(st, move) ==
    LET from_ == move[1]
        to_ == move[2]
        st1 == [st EXCEPT !.board[from_].has_moved = TRUE]
    IN  IF st1.board[to_] # NoPiece
          THEN LET st2 == [st1 EXCEPT !.board[from_].hidden = FALSE,
                                      !.board[to_].hidden = FALSE]
                   f == fight(st2, st2.board[from_], st2.board[to_])
                   fight_outcome == Some(f.outcome)
                   st3 == [st2 EXCEPT !.dead_pieces = f.dead_pieces]
               IN  IF fight_outcome = None
                     THEN [st |-> st3, ret |-> PyBool(FALSE)]
                   ELSE
                   [st |-> IF f.outcome = 1
                             THEN update_board(update_board(st3, to_, st3.board[from_]),
                                               from_, NoPiece)
                           ELSE IF f.outcome = 0
                             THEN update_board(update_board(st3, to_, NoPiece), from_, NoPiece)
                           ELSE update_board(st3, to_, st3.board[to_]),
                    ret |-> Some(f.outcome)]
          ELSE [st |-> update_board(update_board(st1, to_, st1.board[from_]), from_, NoPiece),
                ret |-> None]

\* GameState.do_move(move): the state after the move and the value returned.
\* The value is None, the fight outcome <<o>>, or PyBool(FALSE) where the code
\* returns False: it does so when fight() returns None, and fight() returns the
\* battle matrix entry whatever the teams of the two pieces are.
do_move(st, move) ==
    LET from_ == move[1]
        to_ == move[2]
        st1 == [st EXCEPT !.board[from_].has_moved = TRUE]
    IN  IF st1.board[to_] # NoPiece
          THEN LET st2 == [st1 EXCEPT !.board[from_].hidden = FALSE,
                                      !.board[to_].hidden = FALSE]
                   f == fight(st2, st2.board[from_], st2.board[to_])
                   fight_outcome == Some(f.outcome)
                   st3 == [st2 EXCEPT !.dead_pieces = f.dead_pieces]
               IN  IF fight_outcome = None
                     THEN [st |-> st3, ret |-> PyBool(FALSE)]
                   ELSE
                   [st |-> IF f.outcome = 1
                             THEN update_board(update_board(st3, to_, st3.board[from_]),
                                               from_, NoPiece)
                           ELSE IF f.outcome = 0
                             THEN update_board(update_board(st3, to_, NoPiece), from_, NoPiece)
                           ELSE update_board(update_board(st3, from_, NoPiece),
                                             to_, st3.board[to_]),
                    ret |-> Some(f.outcome)]
          ELSE [st |-> update_board(update_board(st1, to_, st1.board[from_]), from_, NoPiece),
                ret |-> None]

\* GameState.is_terminal(**kwargs): the call check_terminal( *kwargs ) unpacks
\* the dict, so the keyword NAMES arrive as the positional arguments; kwargs is
\* the sequence of the names given
is_terminal(st, kwargs) ==
    IF ~st.terminal_checked
      THEN check_terminal(st,
                          IF Len(kwargs) >= 1 THEN PyStr(kwargs[1]) ELSE PyBool(FALSE),
                          IF Len(kwargs) >= 2 THEN PyStr(kwargs[2]) ELSE PyNone)
      ELSE st

(***************************************************************************)
(* Game: the state of the engine.                                          *)
(***************************************************************************)
VARIABLES
    state,        \* Game.state: the GameState record
    move_count,   \* Game.move_count
    agents,       \* Game.agents: per agent its setup, learner flag, accumulated
                  \* reward, move_count and the number of do_move notifications
    reward_kill,  \* Game.reward_kill
    reward_die,   \* Game.reward_die
    result,       \* the value the last run_step returned (None before the first)
    outcome,      \* the value the last GameState.do_move returned
    ncalls,       \* the number of direct GameState.do_move calls (SpecState)
    last_move,    \* the move of the last direct GameState.do_move call
    replay,       \* the GameReplay object
    restored,     \* what the last GameReplay.restore_to_round call did
    mstate,       \* stratego.Game.state: the State of the modular engine
    magents,      \* stratego.Game.agents: per team, learning-capable or not,
                  \* and the reward tokens received
    hook_log,     \* the hook callbacks invoked so far, in order
    mstatus,      \* position of run_game and the status of the last run_step
    drawn,        \* the inputs and the result of the last setup draw or
                  \* construction of a modular Game
    action_rep,   \* Game.action_rep_dict, action_rep_moves, action_rep_pieces
    ckpt          \* the networks and the checkpoint file

legacy_vars ==
    <<state, move_count, agents, reward_kill, reward_die, result, outcome, ncalls, last_move>>

replay_vars == <<replay, restored>>

modular_vars == <<mstate, magents, hook_log, mstatus>>

vars == <<legacy_vars, replay_vars, modular_vars, drawn, action_rep, ckpt>>

\* the parts of the model a specification does not use stay as they start
ReplayIdle == replay = None /\ restored = None

ModularIdle == mstate = None /\ magents = None /\ hook_log = None /\ mstatus = None

DrawIdle == drawn = None

ActionRepIdle == action_rep = None

CheckpointIdle == ckpt = None

LegacyIdle ==
    /\ state = None /\ move_count = 0 /\ agents = None /\ reward_kill = 0 /\ reward_die = 0
    /\ result = None /\ outcome = None /\ ncalls = 0 /\ last_move = None

\* what the legacy engine leaves alone
other_vars == <<replay_vars, modular_vars, drawn, action_rep, ckpt>>

reward_win == 1

reward_loss == 0 - 1

\* Agent.add_reward(r), guarded by "if agent.learner" as at every call site
add_reward(ag, i, r) == IF ag[i].learner THEN [ag EXCEPT ![i].reward = @ + r] ELSE ag

\* Game._update_fight_rewards(outcome, turn)
_update_fight_rewards(ag, o, turn, rk, rd) ==
    LET other == (turn + 1) % 2
        wash(a) == add_reward(add_reward(add_reward(add_reward(a, turn, rk), turn, rd),
                                         other, rk), other, rd)
        a1 == IF o = 1 THEN add_reward(add_reward(ag, turn, rk), other, rd) ELSE ag
    IN  IF o = -1 THEN add_reward(add_reward(a1, turn, rd), other, rk) ELSE wash(a1)

\* Game._update_terminal_moves_rewards(turn)
_update_terminal_moves_rewards(ag, turn) ==
    add_reward(add_reward(ag, (turn + 1) % 2, reward_win), turn, reward_loss)

\* Game._update_terminal_flag_rewards(turn)
_update_terminal_flag_rewards(ag, turn) ==
    add_reward(add_reward(ag, turn, reward_win), (turn + 1) % 2, reward_loss)

\* the new move_count given to agent 0 only
broadcast_move_count_Agent0Only(ag, mc) == [ag EXCEPT ![0].move_count = mc]

\* Game.run_step, lines 134-135: agent_.move_count = self.move_count for both
broadcast_move_count(ag, mc) == [i \in Teams |-> [ag[i] EXCEPT !.move_count = mc]]

\* Agent.do_move(new_move, true_gameplay=True), called on both agents
agents_do_move(ag) == [i \in Teams |-> [ag[i] EXCEPT !.moves_seen = @ + 1]]

(***************************************************************************)
(* The fixed setups the games start from: two complete ones per team, and *)
(* partial ones, whose empty entries _build_board_from_setups skips.       *)
(***************************************************************************)
T1A == <<1, 2, 2, 3, 11,   2, 0, 11, 3, 10>>

T0A == <<1, 3, 2, 2, 11,   0, 10, 11, 2, 3>>

T1B == <<2, 2, 2, 3, 11,   3, 10, 1, 11, 0>>

T0B == <<11, 3, 2, 1, 0,   2, 10, 2, 11, 3>>

\* flag and one marshal
T1S == <<0, -1, -1, -1, -1,   -1, -1, -1, -1, 10>>

\* flag and one miner
T0S == <<0, -1, -1, -1, -1,   3, -1, -1, -1, -1>>

\* flag and one bomb: a team that cannot move
T1I == <<0, 11, -1, -1, -1,   -1, -1, -1, -1, -1>>

T0I == <<0, 11, -1, -1, -1,   -1, -1, -1, -1, -1>>

\* no flag
T0F == <<-1, -1, -1, -1, -1,   3, -1, -1, -1, -1>>

\* <<setup of agent 0, setup of agent 1>>
SetupPairs == {<<T0A, T1A>>, <<T0B, T1B>>, <<T0S, T1S>>, <<T0S, T1I>>}

\* <<reward_kill, reward_die, agent 0 learner, agent 1 learner>>
Configs == {<<0, 0, TRUE, TRUE>>, <<2, 0 - 1, TRUE, TRUE>>, <<2, 0 - 1, TRUE, FALSE>>}

\* Game.__init__ and Game.reset with fixed setups, then the reward constants
\* and learner flags as the caller configures them
GameInit(pairs, cfgs, mcs) ==
    \E sp \in pairs, cfg \in cfgs, mc \in mcs :
        /\ state = GameState(_build_board_from_setups(sp[1], sp[2]), mc)
        /\ move_count = 1
        /\ agents = [i \in Teams |-> [setup |-> sp[i + 1], learner |-> cfg[3 + i],
                                      reward |-> 0, move_count |-> 1, moves_seen |-> 0]]
        /\ reward_kill = cfg[1]
        /\ reward_die = cfg[2]
        /\ result = None
        /\ outcome = None
        /\ ncalls = 0
        /\ last_move = None
        /\ ReplayIdle /\ ModularIdle /\ DrawIdle /\ ActionRepIdle /\ CheckpointIdle

Init == GameInit(SetupPairs, Configs, {None})

\* Agent.decide_move(): some legal move of the active team, None when it has none
decide_move(turn) ==
    IF get_poss_moves(state.board, turn) = {} THEN {None}
    ELSE {Some(m) : m \in get_poss_moves(state.board, turn)}

\* run_step without a move that returns the sentinels the wrong way round
RunStepNone_SwappedSentinel(cap) ==
    LET turn == move_count % 2 IN
    /\ result \in {None, Some(0)}
    /\ move_count <= cap
    /\ None \in decide_move(turn)
    /\ result' = IF turn = 1 THEN Some(0 - 2) ELSE Some(2)
    /\ UNCHANGED <<state, move_count, agents, reward_kill, reward_die, outcome, ncalls,
                   last_move, other_vars>>

\* Game.run_step, lines 114-118: no move
RunStepNone(cap) ==
    LET turn == move_count % 2 IN
    /\ result \in {None, Some(0)}
    /\ move_count <= cap
    /\ None \in decide_move(turn)
    /\ result' = IF turn = 1 THEN Some(2) ELSE Some(0 - 2)
    /\ UNCHANGED <<state, move_count, agents, reward_kill, reward_die, outcome, ncalls,
                   last_move, other_vars>>

\* Game.run_step, lines 120-136: the move is executed
RunStepMove(cap) ==
    LET turn == move_count % 2 IN
    /\ result \in {None, Some(0)}
    /\ move_count <= cap
    /\ \E nm \in decide_move(turn) \ {None} :
        LET new_move == nm[1]
            ag1 == agents_do_move(agents)
            dm == do_move(state, new_move)
            ag2 == IF dm.ret # None
                     THEN _update_fight_rewards(ag1, dm.ret[1], turn, reward_kill, reward_die)
                     ELSE ag1
            st == is_terminal(dm.st, <<"flag_only", "move_count">>)
        IN  /\ state' = st
            /\ outcome' = dm.ret
            /\ IF st.terminal # 0
                 THEN /\ result' = Some(st.terminal)
                      /\ agents' = ag2
                      /\ UNCHANGED move_count
                 ELSE /\ move_count' = move_count + 1
                      /\ agents' = broadcast_move_count(ag2, move_count + 1)
                      /\ result' = Some(0)
    /\ UNCHANGED <<reward_kill, reward_die, ncalls, last_move, other_vars>>

Next == RunStepNone(MaxMoveCount) \/ RunStepMove(MaxMoveCount)

Spec == Init /\ [][Next]_vars

(***************************************************************************)
(* SpecLong: a game of two pieces and two flags, played up to the move     *)
(* count ceiling.                                                          *)
(***************************************************************************)
InitLong == GameInit({<<T0S, T1S>>}, {<<0, 0, TRUE, TRUE>>}, {None})

NextLong == RunStepNone(LongMoveCount) \/ RunStepMove(LongMoveCount)

SpecLong == InitLong /\ [][NextLong]_vars

(***************************************************************************)
(* SpecState: a GameState used on its own.  It is constructed from a board *)
(* (complete or with pieces missing) and an optional move_count, and its   *)
(* methods do_move, check_terminal and is_terminal are called in any order.*)
(***************************************************************************)
StatePairs == {<<T0B, T1B>>, <<T0S, T1I>>, <<T0I, T1S>>, <<T0S, T1S>>, <<T0F, T1S>>}

InitState ==
    \/ GameInit(StatePairs, {<<0, 0, TRUE, TRUE>>}, {None})
    \/ GameInit({<<T0S, T1S>>}, {<<0, 0, TRUE, TRUE>>}, {Some(500), Some(501)})

\* the moves do_move is called with: a legal move of either team, or (do_move
\* checks no legality) a flag or bomb stepping onto an empty cell
MoveInputs ==
    get_poss_moves(state.board, 0) \cup get_poss_moves(state.board, 1)
        \cup {m \in Cells \X Cells :
                 /\ state.board[m[1]].type \in {0, 11}
                 /\ \E d \in Dirs : m[2] = Step(m[1], d, 1)
                 /\ state.board[m[2]] = NoPiece}

DoMove ==
    /\ ncalls < MaxCalls
    /\ \E move \in MoveInputs :
        LET dm == do_move(state, move)
        IN  /\ state' = dm.st
            /\ outcome' = dm.ret
            /\ last_move' = Some(move)
    /\ ncalls' = ncalls + 1
    /\ UNCHANGED <<move_count, agents, reward_kill, reward_die, result, other_vars>>

\* do_move called with a move onto a piece of the mover's own team: a mobile
\* piece stepping one cell onto a neighbour of its team
OwnTeamMoves ==
    {m \in Cells \X Cells :
        /\ state.board[m[1]].type \in Attackers
        /\ \E d \in Dirs : m[2] = Step(m[1], d, 1)
        /\ state.board[m[2]].team = state.board[m[1]].team}

DoMoveOwnTeam ==
    /\ ncalls < MaxCollide
    /\ \E move \in OwnTeamMoves :
        LET dm == do_move(state, move)
        IN  /\ state' = dm.st
            /\ outcome' = dm.ret
            /\ last_move' = Some(move)
    /\ ncalls' = ncalls + 1
    /\ UNCHANGED <<move_count, agents, reward_kill, reward_die, result, other_vars>>

CheckTerminal ==
    /\ \E flag_only \in BOOLEAN, turn \in {PyNone, PyInt(1)} :
        state' = check_terminal(state, PyBool(flag_only), turn)
    /\ UNCHANGED <<move_count, agents, reward_kill, reward_die, result, outcome, ncalls,
                   last_move, other_vars>>

KwargsInputs == {<< >>, <<"flag_only">>, <<"flag_only", "move_count">>}

IsTerminal ==
    /\ \E kwargs \in KwargsInputs : state' = is_terminal(state, kwargs)
    /\ UNCHANGED <<move_count, agents, reward_kill, reward_die, result, outcome, ncalls,
                   last_move, other_vars>>

NextState == DoMove \/ CheckTerminal \/ IsTerminal

SpecState == InitState /\ [][NextState]_vars

(***************************************************************************)
(* Properties.                                                             *)
(***************************************************************************)
\* both agents were given a setup that holds the whole inventory
CompleteStart == Complete(agents[0].setup) /\ Complete(agents[1].setup)

\* the flag of a team stands on the board
FlagOnBoard(team) == \E c \in Cells : state.board[c].type = 0 /\ state.board[c].team = team

\* the number of pieces of a team and rank on the board
OnBoard(team, type_) ==
    Cardinality({c \in Cells : state.board[c].team = team /\ state.board[c].type = type_})

RECURSIVE SumOver(_, _)
SumOver(f, ks) ==
    IF ks = {} THEN 0
    ELSE LET k == CHOOSE x \in ks : TRUE IN f[k] + SumOver(f, ks \ {k})

\* the number of pieces the tally counts as dead
TotalDead == SumOver([x \in Teams \X Ranks |-> state.dead_pieces[x[1]][x[2]]], Teams \X Ranks)

\* a run_step has just captured the flag of a team
FlagJustCaptured(team) ==
    /\ result \notin {None, Some(0)}
    /\ outcome = Some(1)
    /\ ~FlagOnBoard(team)
    /\ FlagOnBoard(1 - team)

\* C1: from two complete setups, the run_step that captures the flag of team 1
\* returns 1 (agent 0 wins by flag), the one that captures the flag of team 0
\* returns -1 (agent 1 wins by flag).
C1_FlagCaptureWinsForCapturer ==
    \A team \in Teams :
        (CompleteStart /\ FlagJustCaptured(team))
            => /\ state.terminal = (IF team = 1 THEN 1 ELSE 0 - 1)
               /\ result = Some(state.terminal)

\* C2: a run_step that is given a move while Game.move_count exceeds 500, and
\* captures no flag, returns 404.
C2_CeilingReturns404 ==
    [][(/\ move_count > 500
        /\ agents'[0].moves_seen # agents[0].moves_seen
        /\ FlagOnBoard(0)' /\ FlagOnBoard(1)')
            => result' = Some(404)]_vars

\* C3: run_game has returned by the time the 500 half-move ceiling is passed:
\* while its loop is still running, Game.move_count is at most 501.
C3_RunGameBounded == result \in {None, Some(0)} => move_count <= 501

C5_MoveExhaustion ==
    \A t \in Teams :
        (/\ get_poss_moves(state.board, t) = {}
         /\ get_poss_moves(state.board, 1 - t) # {}
         /\ FlagOnBoard(0) /\ FlagOnBoard(1)
         /\ state.move_count = None)
            => check_terminal(state, PyBool(FALSE), PyInt(t)).terminal
                  = (IF t = 1 THEN 2 ELSE 0 - 2)

\* C6: with the default rewards and two learners, a game from complete setups
\* whose only combat is the flag capture that ends it leaves the capturing
\* agent with reward +1 and the other with -1.
C6_DefaultRewards ==
    \A team \in Teams :
        (/\ CompleteStart
         /\ reward_kill = 0 /\ reward_die = 0
         /\ agents[0].learner /\ agents[1].learner
         /\ FlagJustCaptured(team)
         /\ TotalDead = 1)
            => /\ agents[1 - team].reward = 1
               /\ agents[team].reward = 0 - 1

\* C7: in a run_step with combat between two learners, outcome 1 credits the
\* active agent reward_kill and the passive one reward_die, outcome -1 credits
\* the active agent reward_die and the passive one reward_kill, and outcome 0
\* credits each reward_kill + reward_die.
C7_FightRewards ==
    [][(/\ agents'[0].moves_seen # agents[0].moves_seen
        /\ outcome' # None
        /\ agents[0].learner /\ agents[1].learner)
            => LET turn == move_count % 2
                   other == (turn + 1) % 2
                   credit(i) == agents'[i].reward - agents[i].reward
               IN  /\ outcome' = Some(1)
                        => credit(turn) = reward_kill /\ credit(other) = reward_die
                   /\ outcome' = Some(0 - 1)
                        => credit(turn) = reward_die /\ credit(other) = reward_kill
                   /\ outcome' = Some(0)
                        => /\ credit(turn) = reward_kill + reward_die
                           /\ credit(other) = reward_kill + reward_die]_vars

\* the same piece, whatever its position and flags
SamePiece(p, q) == p.type = q.type /\ p.team = q.team /\ p.version = q.version

\* C8: do_move from an occupied cell onto an empty cell relocates the mover and
\* returns None; onto an opposing piece it returns the battle matrix outcome o
\* and leaves, for o = 1, the attacker in the destination, for o = -1, the
\* defender in the destination, for o = 0, the destination empty; the source
\* is empty and no other cell changes.
C8_DoMoveEffect ==
    \A move \in MoveInputs :
        LET from_ == move[1]
            to_ == move[2]
            att == state.board[from_]
            def == state.board[to_]
            dm == do_move(state, move)
            o == bm(att.type, def.type)
        IN  /\ dm.st.board[from_] = NoPiece
            /\ \A c \in Cells \ {from_, to_} : dm.st.board[c] = state.board[c]
            /\ def = NoPiece
                 => dm.ret = None /\ SamePiece(dm.st.board[to_], att)
            /\ def # NoPiece
                 => /\ dm.ret = Some(o)
                    /\ o = 1 => SamePiece(dm.st.board[to_], att)
                    /\ o = 0 - 1 => SamePiece(dm.st.board[to_], def)
                    /\ o = 0 => dm.st.board[to_] = NoPiece

\* C8 witness: a do_move call in which the attacker lost and the defender stayed
C8_Witness ==
    /\ ncalls > 0
    /\ outcome = Some(0 - 1)

\* C28: after a do_move call the mover, where it is still on the board, has
\* has_moved true; after a move onto an opposing piece the piece left in the
\* destination has hidden false; a move onto an empty cell leaves the mover's
\* hidden flag as it was; the pieces on the other cells keep their flags and
\* the source cell is empty, so that no piece on the board goes from hidden
\* false to true or from has_moved true to false; a step that is no do_move
\* call changes no piece.
C28_PieceFlags ==
    [][/\ ncalls' = ncalls + 1
            => LET from_ == last_move'[1][1]
                   to_ == last_move'[1][2]
                   att == state.board[from_]
                   def == state.board[to_]
                   left == state'.board[to_]
               IN  /\ \A c \in Cells \ {from_, to_} : state'.board[c] = state.board[c]
                   /\ (left # NoPiece /\ SamePiece(left, att)) => left.has_moved
                   /\ (def # NoPiece /\ left # NoPiece) => ~left.hidden
                   /\ (def # NoPiece /\ left # NoPiece /\ SamePiece(left, def))
                        => left.has_moved = def.has_moved
                   /\ def = NoPiece
                        => /\ SamePiece(left, att)
                           /\ left.hidden = att.hidden
                   /\ state'.board[from_] = NoPiece
                   /\ \A c \in {from_, to_} :
                         (state.board[c] # NoPiece /\ SamePiece(state.board[c], left))
                            => /\ left.hidden => state.board[c].hidden
                               /\ state.board[c].has_moved => left.has_moved
       /\ ncalls' = ncalls => state'.board = state.board]_vars

\* C28 witness: a piece that had not moved defended its cell, and stands
\* there revealed and still unmoved
C28_Witness ==
    /\ ncalls >= 2
    /\ outcome = Some(0 - 1)
    /\ ~state.board[last_move[1][2]].hidden
    /\ ~state.board[last_move[1][2]].has_moved
    /\ \E c \in Cells : state.board[c].has_moved /\ state.board[c].hidden

\* C29: when the cached terminal check is invalid, is_terminal(flag_only=v)
\* leaves the state that check_terminal(flag_only=v) leaves, for v false (the
\* move-exhaustion test is made) and for v true (it is skipped).
C29_OptionForwarding ==
    ~state.terminal_checked
        => \A v \in BOOLEAN :
              is_terminal(state, <<"flag_only">>) = check_terminal(state, PyBool(v), PyNone)

\* C9: from two complete setups and after any do_move calls, for every team
\* and rank the pieces on the board plus the dead pieces are the inventory.
C9_Conservation ==
    CompleteStart
        => \A team \in Teams, type_ \in Ranks :
              OnBoard(team, type_) + state.dead_pieces[team][type_] = Inventory(type_)

\* C9 witness: a tie has removed a piece of either team
C9_Witness ==
    /\ CompleteStart
    /\ ncalls > 0
    /\ outcome = Some(0)
    /\ \E r \in Ranks : state.dead_pieces[0][r] > 0 /\ state.dead_pieces[1][r] > 0

\* C10: right after GameState(board), for both teams and every rank the tally
\* is the inventory quantity minus that team's pieces of the rank on the board.
C10_InitialTally ==
    ncalls = 0
        => \A team \in Teams, type_ \in Ranks :
              state.dead_pieces[team][type_] = Inventory(type_) - OnBoard(team, type_)

(***************************************************************************)
(* SpecCollide: GameState.do_move called with legal moves and with moves   *)
(* onto a piece of the mover's own team.                                   *)
(***************************************************************************)
\* flag, marshal, miner and spy next to each other
T1C == <<0, 10, -1, -1, -1,   3, 1, -1, -1, -1>>

\* flag, two miners and a scout next to each other
T0C == <<0, 3, -1, -1, -1,   3, 2, -1, -1, -1>>

InitCollide == GameInit({<<T0C, T1C>>, <<T0B, T1B>>}, {<<0, 0, TRUE, TRUE>>}, {None})

NextCollide == DoMove \/ DoMoveOwnTeam

SpecCollide == InitCollide /\ [][NextCollide]_vars

\* C11: a do_move call whose destination holds a piece of the mover's own team
\* returns False and leaves the board (every piece with its position, hidden
\* and has_moved flags) and the dead-piece tally as they were.
C11_OwnTeamCollision ==
    [][(/\ ncalls' = ncalls + 1
        /\ state.board[last_move'[1][2]].team = state.board[last_move'[1][1]].team)
            => /\ outcome' = PyBool(FALSE)
               /\ state'.board = state.board
               /\ state'.dead_pieces = state.dead_pieces]_vars

(***************************************************************************)
(* GameReplay.  The object is the record                                   *)
(*   [initialBoard, curr_board, pieces_team_0, pieces_team_1,              *)
(*    moves_and_pieces_in_round, team_of_round, boards].                   *)
(* The two dicts are functions on the rounds recorded.  boards is not an   *)
(* attribute: it keeps, for the properties, the board that existed after   *)
(* every recorded move (boards[k + 1] after move k, boards[1] at the       *)
(* start).  Pieces are values here, so the position a piece records is the *)
(* one it had when it was put on the board; the replay's do_move does not  *)
(* update it either.                                                       *)
(***************************************************************************)
\* np.ndenumerate(board): the cells in row-major order
RowMajor == [i \in 1 .. (game_dim * game_dim) |-> <<(i - 1) \div game_dim, (i - 1) % game_dim>>]

\* GameReplay.__init__(board)
GameReplay(board) ==
    LET cell_pieces == [i \in DOMAIN RowMajor |-> board[RowMajor[i]]]
        is_team_0(piece) == piece # NoPiece /\ piece.team = 0
        is_other(piece) == piece # NoPiece /\ piece.team # 0
    IN  [initialBoard |-> board,
         curr_board |-> board,
         pieces_team_0 |-> SelectSeq(cell_pieces, is_team_0),
         pieces_team_1 |-> SelectSeq(cell_pieces, is_other),
         moves_and_pieces_in_round |-> << >>,
         team_of_round |-> << >>,
         boards |-> <<board>>]

\* GameReplay.do_move that leaves the defender on its cell after a won fight
replay_do_move_WinnerVanishes(board, move) ==
    LET from_ == move[1]
        to_ == move[2]
        b1 == IF board[to_] # NoPiece
                THEN LET fight_outcome == bm(board[from_].type, board[to_].type)
                     IN  IF fight_outcome = 0 THEN [board EXCEPT ![to_] = NoPiece]
                         ELSE board
                ELSE [board EXCEPT ![to_] = board[from_]]
    IN  [b1 EXCEPT ![from_] = NoPiece]

\* GameReplay.do_move(board, move)
replay_do_move(board, move) ==
    LET from_ == move[1]
        to_ == move[2]
        b1 == IF board[to_] # NoPiece
                THEN LET fight_outcome == bm(board[from_].type, board[to_].type)
                     IN  IF fight_outcome = 1 THEN [board EXCEPT ![to_] = board[from_]]
                         ELSE IF fight_outcome = 0 THEN [board EXCEPT ![to_] = NoPiece]
                         ELSE board
                ELSE [board EXCEPT ![to_] = board[from_]]
    IN  [b1 EXCEPT ![from_] = NoPiece]

\* f with the key k set to v, as a dict assignment does
DictSet(f, k, v) == [x \in DOMAIN f \cup {k} |-> IF x = k THEN v ELSE f[x]]

\* GameReplay.add_move(move, pieces, team, round)
add_move(rp, move, pieces, team, round) ==
    LET b == replay_do_move(rp.curr_board, move)
    IN  [rp EXCEPT
            !.moves_and_pieces_in_round = DictSet(@, round, <<move, pieces[1], pieces[2]>>),
            !.team_of_round = DictSet(@, round, team),
            !.curr_board = b,
            !.boards = Append(@, b)]

\* max(d.keys()) of a non-empty dict
MaxKey(d) == CHOOSE k \in DOMAIN d : \A x \in DOMAIN d : x <= k

\* GameReplay.undo_last_n_moves(n, board), rounds max_round - k for k = i .. n-1:
\* the board reached and the exception raised ("" for none).  Setting
\* piece_to.position raises AttributeError when piece_to is None, after the
\* two cells have been written.
RECURSIVE undo_from(_, _, _, _)
undo_from(rp, i, n, board) ==
    IF i >= n THEN [board |-> board, raised |-> ""]
    ELSE LET max_round == MaxKey(rp.moves_and_pieces_in_round)
         IN  IF (max_round - i) \notin DOMAIN rp.moves_and_pieces_in_round
               THEN [board |-> board, raised |-> "KeyError"]
             ELSE LET e == rp.moves_and_pieces_in_round[max_round - i]
                      from_ == e[1][1]
                      to_ == e[1][2]
                      piece_from == e[2]
                      piece_to == e[3]
                      b1 == [board EXCEPT ![from_] = piece_from, ![to_] = piece_to]
                      b2 == [b1 EXCEPT ![from_].position = from_]
                  IN  IF piece_to = NoPiece
                        THEN [board |-> b2, raised |-> "AttributeError"]
                      ELSE undo_from(rp, i + 1, n, [b2 EXCEPT ![to_].position = to_])

undo_last_n_moves(rp, n, board) == undo_from(rp, 0, n, board)

\* the loop "for played_round in range(round)" of restore_to_round, from
\* played_round = i on
RECURSIVE replay_from(_, _, _, _)
replay_from(rp, i, round, board) ==
    IF i >= round THEN [board |-> board, raised |-> ""]
    ELSE IF i \notin DOMAIN rp.moves_and_pieces_in_round
      THEN [board |-> board, raised |-> "KeyError"]
    ELSE replay_from(rp, i + 1, round,
                     replay_do_move(board, rp.moves_and_pieces_in_round[i][1]))

\* GameReplay.restore_to_round(round): the replay object after the call (the
\* undo path works on curr_board itself), the board returned, the exception
\* raised ("" for none), the branch taken (path) and the number of moves its
\* loop was asked to undo or replay (n)
restore_to_round(rp, round) ==
    IF DOMAIN rp.moves_and_pieces_in_round = {}
      THEN [rp |-> rp, board |-> rp.curr_board, raised |-> "ValueError",
            path |-> "", n |-> 0]
    ELSE LET round_dist == MaxKey(rp.moves_and_pieces_in_round) - round
         IN  IF round_dist > round
               THEN LET u == undo_last_n_moves(rp, round, rp.curr_board)
                    IN  [rp |-> [rp EXCEPT !.curr_board = u.board],
                         board |-> u.board, raised |-> u.raised,
                         path |-> "undo", n |-> round]
             ELSE LET f == replay_from(rp, 0, round, rp.initialBoard)
                  IN  [rp |-> rp, board |-> f.board, raised |-> f.raised,
                       path |-> "replay", n |-> round]

(***************************************************************************)
(* SpecReplay: moves are recorded with add_move, rounds numbered from 1,   *)
(* and restore_to_round is called for any round recorded so far.           *)
(***************************************************************************)
ReplayPairs == {<<T0S, T1S>>, <<T0C, T1C>>}

InitReplay ==
    /\ \E sp \in ReplayPairs : replay = GameReplay(_build_board_from_setups(sp[1], sp[2]))
    /\ restored = None
    /\ LegacyIdle /\ ModularIdle /\ DrawIdle /\ ActionRepIdle /\ CheckpointIdle

\* the number of moves recorded
NumRounds == Cardinality(DOMAIN replay.moves_and_pieces_in_round)

\* a legal move of the team whose turn it is is made and recorded
AddMove ==
    /\ NumRounds < MaxRounds
    /\ LET round == NumRounds + 1
           team == round % 2
       IN  \E move \in get_poss_moves(replay.curr_board, team) :
               replay' = add_move(replay, move,
                                  <<replay.curr_board[move[1]], replay.curr_board[move[2]]>>,
                                  team, round)
    /\ UNCHANGED <<restored, legacy_vars, modular_vars, drawn, action_rep, ckpt>>

RestoreToRound ==
    /\ \E round \in 0 .. NumRounds :
        LET r == restore_to_round(replay, round)
        IN  /\ replay' = r.rp
            /\ restored' = Some([round |-> round, board |-> r.board, raised |-> r.raised,
                                 rounds |-> NumRounds, path |-> r.path, n |-> r.n])
    /\ UNCHANGED <<legacy_vars, modular_vars, drawn, action_rep, ckpt>>

NextReplay == AddMove \/ RestoreToRound

SpecReplay == InitReplay /\ [][NextReplay]_vars

\* the cells of two boards hold the same pieces
SameCells(b1, b2) == \A c \in Cells : SamePiece(b1[c], b2[c])

\* C12: restore_to_round(k), 0 <= k <= N, called after N >= 1 recorded moves
\* raises nothing and returns a board whose cells hold the pieces of the board
\* that existed right after move k (the initial board for k = 0).
C12_ReplayRoundTrip ==
    (restored # None /\ restored[1].rounds >= 1)
        => /\ restored[1].raised = ""
           /\ SameCells(restored[1].board, replay.boards[restored[1].round + 1])

\* C21: restore_to_round(r) with M >= 1 recorded rounds takes the shorter
\* path: when M - r < r it undoes the last M - r recorded moves from the
\* current board, otherwise it replays the first r recorded moves from the
\* initial board.
C21_ShorterPath ==
    (restored # None /\ restored[1].rounds >= 1)
        => LET M == restored[1].rounds
               r == restored[1].round
           IN  IF M - r < r
                 THEN restored[1].path = "undo" /\ restored[1].n = M - r
               ELSE restored[1].path = "replay" /\ restored[1].n = r

(***************************************************************************)
(* SpecMirror: a game board and a GameReplay built from it.  Every move    *)
(* given to GameState.do_move is then given to GameReplay.do_move on the   *)
(* replay's own board.                                                     *)
(***************************************************************************)
\* Game.reset, lines 80-85: the state and the replay made from its board
GameWithReplay(pairs) ==
    \E sp \in pairs :
        /\ state = GameState(_build_board_from_setups(sp[1], sp[2]), None)
        /\ move_count = 1
        /\ agents = [i \in Teams |-> [setup |-> sp[i + 1], learner |-> TRUE,
                                      reward |-> 0, move_count |-> 1, moves_seen |-> 0]]
        /\ reward_kill = 0
        /\ reward_die = 0
        /\ result = None
        /\ outcome = None
        /\ ncalls = 0
        /\ last_move = None
        /\ replay = GameReplay(state.board)
        /\ restored = None
        /\ ModularIdle /\ DrawIdle /\ ActionRepIdle /\ CheckpointIdle

InitMirror == GameWithReplay({<<T0C, T1C>>, <<T0B, T1B>>})

\* the number of moves GameReplay.do_move has applied to curr_board
ReplayMoves == Len(replay.boards) - 1

\* GameState.do_move(move) on the game board, once the replay has caught up
MirrorEngineMove == ReplayMoves = ncalls /\ DoMove

\* self.curr_board = self.do_move(self.curr_board, move) with the move the
\* engine made last; curr_board is the deep copy made at construction, so the
\* assignment into it leaves the game board alone
MirrorReplayMove ==
    /\ ReplayMoves < ncalls
    /\ LET b == replay_do_move(replay.curr_board, last_move[1])
       IN  replay' = [replay EXCEPT !.curr_board = b, !.boards = Append(@, b)]
    /\ UNCHANGED <<legacy_vars, restored, modular_vars, drawn, action_rep, ckpt>>

NextMirror == MirrorEngineMove \/ MirrorReplayMove

SpecMirror == InitMirror /\ [][NextMirror]_vars

\* the same rank and team, or emptiness, in a cell of two boards
SameOccupant(p, q) == p.type = q.type /\ p.team = q.team

\* the two boards hold the same (rank, team) occupant, or nothing, in every cell
BoardsAgree(b1, b2) == \A c \in Cells : SameOccupant(b1[c], b2[c])

\* C22: whenever the same moves have been applied with GameState.do_move to
\* the game board and with GameReplay.do_move to the replay's copy, every cell
\* of the two boards holds the same (rank, team) occupant or is empty in both;
\* and a GameReplay.do_move step leaves the game board as it is.
C22_ReplayAgreesWithEngine ==
    [][/\ (replay' # replay) => state' = state
       /\ (ReplayMoves' = ncalls') => BoardsAgree(replay'.curr_board, state'.board)]_vars

C22_Witness ==
    /\ replay # None /\ ncalls >= 2 /\ ReplayMoves = ncalls
    /\ outcome = Some(1)
    /\ replay.curr_board[last_move[1][2]].team # 0 - 1

(***************************************************************************)
(* SpecHistory: the legacy Game after reset(), with the GameReplay that    *)
(* reset() builds from the board, played with run_step.                    *)
(***************************************************************************)
InitHistory == GameWithReplay({<<T0S, T1S>>, <<T0C, T1C>>, <<T0A, T1A>>})

SpecHistory == InitHistory /\ [][Next]_vars

\* C27: after n moves executed by run_step since reset(), game_replay holds
\* exactly n records and its current board has the occupant of the game
\* board in every cell.
C27_ReplayRecordsEveryMove ==
    replay # None
        => /\ NumRounds = agents[0].moves_seen
           /\ BoardsAgree(replay.curr_board, state.board)

(***************************************************************************)
(* The modular engine, stratego.Game of src/stratego/game.py.  Team, Status,*)
(* HookPoint, RewardToken, State, History, Logic and the agents are the    *)
(* ones the specification describes.  The State is the record              *)
(*   [board, starting_team, turn_counter, history, dead_pieces].           *)
(* An agent is [team, rl, hooks, rewards]: rl says whether it is an        *)
(* RLAgent, hooks[hp] is the number of callbacks it registers for the hook *)
(* point hp, rewards is the sequence of the tokens add_reward was given.   *)
(* A callback does nothing but write itself down in hook_log; the engine   *)
(* writes down there too when it has a move decided and when it executes   *)
(* one.                                                                    *)
(***************************************************************************)
blue == 0

red == 1

HookPoints == {"pre_run", "post_run", "pre_move_decision", "post_move_decision",
               "pre_move_execution", "post_move_execution"}

\* State.active_team
active_team(st) == (st.starting_team + st.turn_counter) % 2

\* Logic.compute_dead_pieces(board, token_count)
compute_dead_pieces(board) ==
    [team \in Teams |-> [type_ \in Ranks |->
        Inventory(type_) - Cardinality({c \in Cells : board[c].team = team
                                                        /\ board[c].type = type_})]]

\* Logic.is_legal_move(board, move)
is_legal_move(board, move) ==
    /\ move[1] \in Cells /\ move[2] \in Cells
    /\ board[move[1]] # NoPiece
    /\ board[move[1]].type \notin {0, 11, 99}
    /\ move \in piece_moves(board, move[1])

\* History.commit_move(board, move, turn_counter)
commit_move(st, move) ==
    [st EXCEPT !.history = Append(@, [turn |-> st.turn_counter, move |-> move,
                                      piece_from |-> st.board[move[1]],
                                      piece_to |-> st.board[move[2]]])]

\* Logic.execute_move(state, move): the state after the move and the fight
\* status, None when the destination was empty
execute_move(st, move) ==
    LET from_ == move[1]
        to_ == move[2]
        att == [st.board[from_] EXCEPT !.has_moved = TRUE]
        def == st.board[to_]
        dead(dp, p) == [dp EXCEPT ![p.team][p.type] = @ + 1]
    IN  IF def = NoPiece
          THEN [st |-> [st EXCEPT !.board[to_] = change_position(att, to_),
                                  !.board[from_] = NoPiece],
                fight_status |-> None]
        ELSE LET o == bm(att.type, def.type)
                 a1 == [att EXCEPT !.hidden = FALSE]
                 d1 == [def EXCEPT !.hidden = FALSE]
             IN  [st |->
                    IF o = 1
                      THEN [st EXCEPT !.board[to_] = change_position(a1, to_),
                                      !.board[from_] = NoPiece,
                                      !.dead_pieces = dead(@, def)]
                    ELSE IF o = 0
                      THEN [st EXCEPT !.board[to_] = NoPiece,
                                      !.board[from_] = NoPiece,
                                      !.dead_pieces = dead(dead(@, def), att)]
                    ELSE [st EXCEPT !.board[to_] = d1,
                                    !.board[from_] = NoPiece,
                                    !.dead_pieces = dead(@, att)],
                  fight_status |-> Some(o)]

\* Logic.get_status(state): a team without its flag, or without a move, has lost
get_status(st) ==
    LET lost(team) ==
            \/ ~\E c \in Cells : st.board[c].team = team /\ st.board[c].type = 0
            \/ get_poss_moves(st.board, team) = {}
    IN  IF lost(blue) THEN "win_red"
        ELSE IF lost(red) THEN "win_blue"
        ELSE "ongoing"

\* self.agents[team]: the dict is filled from agent0, then agent1
agent_of(ag, team) == IF ag[1].team = team THEN 1 ELSE 0

\* reward_agent that does not ask whether the agent is an RLAgent
reward_agent_AnyAgent(ag, i, token) == [ag EXCEPT ![i].rewards = Append(@, token)]

\* Game.reward_agent(agent, reward)
reward_agent(ag, i, token) ==
    IF ag[i].rl THEN [ag EXCEPT ![i].rewards = Append(@, token)] ELSE ag

\* the tokens for winning and losing a fight the wrong way round
fight_token_Swapped(fight_status) ==
    IF fight_status = 1 THEN "die"
    ELSE IF fight_status = 0 - 1 THEN "kill"
    ELSE "kill_mutually"

\* Game.run_step, lines 151-157: the token for a fight status
fight_token(fight_status) ==
    IF fight_status = 1 THEN "kill"
    ELSE IF fight_status = 0 - 1 THEN "die"
    ELSE "kill_mutually"

\* the callbacks an agent registers for a hook point, in its order
agent_hooks(ag, i, hp) == [k \in 1 .. ag[i].hooks[hp] |-> [point |-> hp, agent |-> i, k |-> k]]

\* _gather_hooks that takes agent1's callbacks first
_gather_hooks_Agent1First(ag, hp) == agent_hooks(ag, 1, hp) \o agent_hooks(ag, 0, hp)

\* Game._gather_hooks((agent0, agent1)): hook_handler[hp]
_gather_hooks(ag, hp) == agent_hooks(ag, 0, hp) \o agent_hooks(ag, 1, hp)

\* Game._trigger_hooks(hook_point, ...): every callback is called, in order
_trigger_hooks(log, ag, hp) == log \o _gather_hooks(ag, hp)

\* the engine's own entries of hook_log
EngineEvent(what) == [point |-> what, agent |-> 0 - 1, k |-> 0]

\* the end of run_step with a turn counter that advances whatever the status
advance_turn_Always(st, status) == [st EXCEPT !.turn_counter = @ + 1]

\* Game.run_step, lines 160-165: the turn counter advances unless the game
\* is over
advance_turn(st, status) ==
    IF status # "ongoing" THEN st ELSE [st EXCEPT !.turn_counter = @ + 1]

(***************************************************************************)
(* SpecModular: a stratego.Game constructed around a supplied State, then  *)
(* run_game: the pre_run hooks, run_step while the status is ongoing, the  *)
(* post_run hooks.                                                         *)
(***************************************************************************)
\* flag and one miner, two cells in front of the miner of T0D
T1D == <<0, -1, -1, -1, -1,   -1, 3, -1, -1, -1>>

T0D == <<0, -1, -1, -1, -1,   -1, -1, -1, 3, -1>>

\* the boards of the supplied State; in the last one team 0 has no flag
ModularPairs == {<<T0S, T1S>>, <<T0C, T1C>>, <<T0D, T1D>>, <<T0F, T1S>>}

\* the teams of agent0 and agent1, whether they are RLAgents, and the number
\* of callbacks each registers per hook point
AgentConfigs ==
    {[teams |-> <<blue, red>>, rl |-> <<TRUE, TRUE>>, hooks |-> <<1, 1>>],
     [teams |-> <<red, blue>>, rl |-> <<TRUE, FALSE>>, hooks |-> <<2, 1>>],
     [teams |-> <<blue, red>>, rl |-> <<FALSE, TRUE>>, hooks |-> <<0, 2>>]}

InitModular ==
    /\ \E sp \in ModularPairs, start \in Teams, cfg \in AgentConfigs :
        LET board == _build_board_from_setups(sp[1], sp[2])
        IN  /\ mstate = [board |-> board, starting_team |-> start, turn_counter |-> 0,
                         history |-> << >>, dead_pieces |-> compute_dead_pieces(board)]
            /\ magents = [i \in {0, 1} |->
                            [team |-> cfg.teams[i + 1], rl |-> cfg.rl[i + 1],
                             hooks |-> [hp \in HookPoints |-> cfg.hooks[i + 1]],
                             rewards |-> << >>]]
    /\ hook_log = << >>
    /\ mstatus = [phase |-> "constructed", status |-> "ongoing", steps |-> 0,
                  move |-> None, fight_status |-> None]
    /\ LegacyIdle /\ ReplayIdle /\ DrawIdle /\ ActionRepIdle /\ CheckpointIdle

\* Agent.decide_move(info_state): a legal move of the agent's team, or one that
\* is not legal: onto a piece of its own team, or a step of its flag
DecideInputs(st, player) ==
    get_poss_moves(st.board, player)
        \cup {m \in Cells \X Cells :
                 /\ st.board[m[1]].team = player
                 /\ st.board[m[1]].type \in Attackers \cup {0}
                 /\ \E d \in Dirs : m[2] = Step(m[1], d, 1)
                 /\ \/ st.board[m[1]].type = 0
                    \/ st.board[m[2]].team = player}

\* Game.run_game, lines 76-96: up to the loop
RunGameBegin ==
    /\ mstatus.phase = "constructed"
    /\ mstatus' = [mstatus EXCEPT !.phase = "running", !.status = get_status(mstate)]
    /\ hook_log' = _trigger_hooks(hook_log, magents, "pre_run")
    /\ UNCHANGED <<mstate, magents, legacy_vars, replay_vars, drawn, action_rep, ckpt>>

\* Game.run_step(), called by the loop of run_game
ModularRunStep ==
    /\ mstatus.phase = "running"
    /\ mstatus.status = "ongoing"
    /\ mstatus.steps < MaxSteps
    /\ LET player == active_team(mstate)
           agent == agent_of(magents, player)
           log1 == _trigger_hooks(hook_log, magents, "pre_move_decision")
       IN  \E move \in DecideInputs(mstate, player) :
            LET log2 == _trigger_hooks(Append(log1, EngineEvent("decide_move")), magents,
                                       "post_move_decision")
            IN  IF ~is_legal_move(mstate.board, move)
                  THEN /\ magents' = reward_agent(magents, agent, "illegal")
                       /\ mstatus' = [mstatus EXCEPT
                              !.status = IF player = blue THEN "win_red" ELSE "win_blue",
                              !.steps = @ + 1, !.move = Some(move), !.fight_status = None]
                       /\ hook_log' = log2
                       /\ UNCHANGED mstate
                ELSE LET st1 == commit_move(mstate, move)
                         log3 == _trigger_hooks(Append(log2, EngineEvent("commit_move")),
                                                magents, "pre_move_execution")
                         ex == execute_move(st1, move)
                         log4 == _trigger_hooks(Append(log3, EngineEvent("execute_move")),
                                                magents, "post_move_execution")
                         status == get_status(ex.st)
                     IN  /\ magents' = IF ex.fight_status # None
                                         THEN reward_agent(magents, agent,
                                                           fight_token(ex.fight_status[1]))
                                         ELSE magents
                         /\ hook_log' = log4
                         /\ mstate' = advance_turn(ex.st, status)
                         /\ mstatus' = [mstatus EXCEPT
                                !.status = status, !.steps = @ + 1, !.move = Some(move),
                                !.fight_status = ex.fight_status]
    /\ UNCHANGED <<legacy_vars, replay_vars, drawn, action_rep, ckpt>>

\* Game.run_game, lines 102-105: after the loop
RunGameEnd ==
    /\ mstatus.phase = "running"
    /\ mstatus.status # "ongoing"
    /\ mstatus' = [mstatus EXCEPT !.phase = "done"]
    /\ hook_log' = _trigger_hooks(hook_log, magents, "post_run")
    /\ UNCHANGED <<mstate, magents, legacy_vars, replay_vars, drawn, action_rep, ckpt>>

NextModular == RunGameBegin \/ ModularRunStep \/ RunGameEnd

SpecModular == InitModular /\ [][NextModular]_vars

\* the step is a run_step call
IsRunStep == mstatus'.steps = mstatus.steps + 1

\* the entries of hook_log the step has added
Added == SubSeq(hook_log', Len(hook_log) + 1, Len(hook_log'))

\* C13: a run_step whose move is not legal gives the acting agent, if it is an
\* RLAgent, exactly one token "illegal" and the other agent nothing, returns
\* win_red when the active team is blue and win_blue otherwise, leaves the
\* State (board, History, dead pieces, turn counter) as it was, and calls no
\* pre_move_execution or post_move_execution hook.
C13_IllegalMove ==
    [][(IsRunStep /\ ~is_legal_move(mstate.board, mstatus'.move[1]))
            => LET player == active_team(mstate)
                   a == agent_of(magents, player)
               IN  /\ magents'[a].rewards = IF magents[a].rl
                                              THEN Append(magents[a].rewards, "illegal")
                                              ELSE magents[a].rewards
                   /\ magents'[1 - a] = magents[1 - a]
                   /\ mstatus'.status = (IF player = blue THEN "win_red" ELSE "win_blue")
                   /\ mstate' = mstate
                   /\ \A i \in DOMAIN Added :
                         Added[i].point \notin {"pre_move_execution", "post_move_execution",
                                                "execute_move"}]_vars

\* C13 witness: run_step has turned down a move of an RLAgent onto its own
\* piece, with execution hooks registered
C13_Witness ==
    /\ mstatus.steps > 1
    /\ ~is_legal_move(mstate.board, mstatus.move[1])
    /\ mstate.board[mstatus.move[1][2]] # NoPiece
    /\ LET a == agent_of(magents, active_team(mstate))
       IN  /\ magents[a].rl
           /\ magents[a].rewards # << >>
           /\ magents[a].rewards[Len(magents[a].rewards)] = "illegal"
           /\ magents[a].hooks["pre_move_execution"] > 0

\* C14: a run_step with a legal move onto a piece delivers the token of the
\* fight (kill for 1, die for -1, kill_mutually for 0) once, to the acting
\* agent (which keeps it if it is an RLAgent), and nothing to the passive
\* agent; a legal move onto an empty cell delivers nothing to either.
C14_CombatRewards ==
    [][(IsRunStep /\ is_legal_move(mstate.board, mstatus'.move[1]))
            => LET a == agent_of(magents, active_team(mstate))
                   move == mstatus'.move[1]
                   att == mstate.board[move[1]]
                   def == mstate.board[move[2]]
                   o == bm(att.type, def.type)
                   token == IF o = 1 THEN "kill" ELSE IF o = 0 - 1 THEN "die"
                            ELSE "kill_mutually"
               IN  /\ magents'[1 - a] = magents[1 - a]
                   /\ def = NoPiece => mstatus'.fight_status = None /\ magents'[a] = magents[a]
                   /\ def # NoPiece
                        => /\ mstatus'.fight_status = Some(o)
                           /\ magents'[a].rewards = IF magents[a].rl
                                                      THEN Append(magents[a].rewards, token)
                                                      ELSE magents[a].rewards]_vars

\* C14 witness: a tie has given the acting RLAgent kill_mutually and the
\* passive RLAgent nothing
C14_Witness ==
    /\ mstatus.fight_status = Some(0)
    /\ \E a \in {0, 1} :
          /\ magents[a].rl /\ magents[1 - a].rl
          /\ magents[a].rewards = <<"kill_mutually">>
          /\ magents[1 - a].rewards = << >>

\* the callbacks registered for a hook point: agent0's in their order, then
\* agent1's
Registered(hp) ==
    LET n0 == magents[0].hooks[hp]
        n1 == magents[1].hooks[hp]
    IN  [j \in 1 .. (n0 + n1) |->
            IF j <= n0 THEN [point |-> hp, agent |-> 0, k |-> j]
            ELSE [point |-> hp, agent |-> 1, k |-> j - n0]]

\* C15: run_game calls the pre_run callbacks first, before any step, and the
\* post_run callbacks last; a run_step calls the pre_move_decision callbacks,
\* has the move decided, calls the post_move_decision callbacks and, if the
\* move is legal, commits it to the History, calls the pre_move_execution
\* callbacks, executes the move and
\* calls the post_move_execution callbacks; each dispatch calls every callback
\* of the hook point once, agent0's before agent1's, in registration order.
C15_HookOrder ==
    [][/\ (mstatus.phase = "constructed" /\ mstatus'.phase # "constructed")
            => hook_log = << >> /\ Added = Registered("pre_run") /\ mstatus.steps = 0
       /\ IsRunStep
            => /\ mstatus.phase = "running" /\ mstatus'.phase = "running"
               /\ Added = Registered("pre_move_decision")
                            \o <<EngineEvent("decide_move")>>
                            \o Registered("post_move_decision")
                            \o (IF is_legal_move(mstate.board, mstatus'.move[1])
                                  THEN <<EngineEvent("commit_move")>>
                                         \o Registered("pre_move_execution")
                                         \o <<EngineEvent("execute_move")>>
                                         \o Registered("post_move_execution")
                                  ELSE << >>)
       /\ (mstatus.phase # "done" /\ mstatus'.phase = "done")
            => Added = Registered("post_run") /\ mstatus.phase = "running"
       /\ mstatus.phase = "done" => hook_log' = hook_log]_vars

\* C15 witness: a run_game with callbacks of both agents has ended after a
\* fight in its second or a later step
C15_Witness ==
    /\ mstatus.phase = "done"
    /\ mstatus.steps >= 2
    /\ mstatus.fight_status # None
    /\ magents[0].hooks["pre_run"] = 2
    /\ magents[1].hooks["pre_run"] = 1
    /\ Len(hook_log) >= 18

\* C25: a run_step with a legal move adds exactly one record to the History,
\* made of the move, the current turn counter and the two pieces on the board
\* as it is before the move is executed; the commit comes after the
\* post_move_decision callbacks and before the pre_move_execution callbacks
\* and the execution; afterwards the turn counter is one higher if the status
\* computed after the move is ongoing and unchanged otherwise.
C25_HistoryCommit ==
    [][(IsRunStep /\ is_legal_move(mstate.board, mstatus'.move[1]))
          => LET move == mstatus'.move[1]
                 at(e) == CHOOSE j \in DOMAIN Added : Added[j] = e
                 commits == {j \in DOMAIN Added : Added[j] = EngineEvent("commit_move")}
             IN  /\ mstate'.history =
                        Append(mstate.history,
                               [turn |-> mstate.turn_counter, move |-> move,
                                piece_from |-> mstate.board[move[1]],
                                piece_to |-> mstate.board[move[2]]])
                 /\ Cardinality({k \in DOMAIN mstate'.history :
                                     mstate'.history[k].turn = mstate.turn_counter}) = 1
                 /\ Cardinality(commits) = 1
                 /\ \A j \in DOMAIN Added :
                        /\ Added[j].point \in {"pre_move_decision", "decide_move",
                                               "post_move_decision"}
                              => j < at(EngineEvent("commit_move"))
                        /\ Added[j].point \in {"pre_move_execution", "execute_move",
                                               "post_move_execution"}
                              => j > at(EngineEvent("commit_move"))
                 /\ mstatus'.status = get_status([mstate' EXCEPT
                                                     !.turn_counter = mstate.turn_counter])
                 /\ mstate'.turn_counter =
                        mstate.turn_counter + (IF mstatus'.status = "ongoing" THEN 1 ELSE 0)]_vars

\* C25 witness: a second legal move has been committed, after a first one that
\* left the game ongoing, and it ended the game, so that the turn counter stayed
C25_Witness ==
    /\ mstatus # None /\ mstate # None
    /\ Len(mstate.history) = 2
    /\ mstate.history[1].turn = 0 /\ mstate.history[2].turn = 1
    /\ mstate.turn_counter = 1
    /\ mstatus.status # "ongoing"
    /\ mstate.history[2].piece_to # NoPiece
    /\ magents[0].hooks["pre_move_execution"] + magents[1].hooks["pre_move_execution"] >= 2

(***************************************************************************)
(* Setup drawing and the construction of the modular Game.  The variable   *)
(* drawn is the record                                                     *)
(*   [fn, team, flag_choice, args, draws, done, raised, result, iters,     *)
(*    cells_left]:                                                         *)
(* the function called, its inputs (the random choices among them), and,   *)
(* once it has run, the exception it raised ("" for none), what it         *)
(* returned or built, the iterations the drawing loop began and the        *)
(* candidate cells it left.                                                *)
(***************************************************************************)
\* GameSpecification.token_count: its keys and its values, as lists
all_tokens_0 == <<0, 1, 2, 3, 10, 11>>

token_freqs_0 == [i \in DOMAIN all_tokens_0 |-> Inventory(all_tokens_0[i])]

\* GameSpecification.setup_rows[team]
setup_rows(team) ==
    IF team = 1 THEN [i \in 1 .. row_offset |-> i - 1]
    ELSE [i \in 1 .. row_offset |-> game_dim - row_offset + i - 1]

\* a Python list as an argument
PyList(l) == <<"list", l>>

\* erase(list_cont, i) of draw_board: list_cont[:i] + list_cont[i + 1:], which
\* raises TypeError for an index i that is a list; i counts from 0
erase(list_cont, i) ==
    IF i[1] = "int"
      THEN [raised |-> "",
            list |-> SubSeq(list_cont, 1, i[2]) \o SubSeq(list_cont, i[2] + 2, Len(list_cont))]
      ELSE [raised |-> "TypeError", list |-> list_cont]

\* itertools.product(setup_rows, range(game_size)) as a list of positions
all_pos_of(team) ==
    [n \in 1 .. (row_offset * game_dim) |->
        <<setup_rows(team)[((n - 1) \div game_dim) + 1], (n - 1) % game_dim>>]

\* the while loop of draw_board for one team.  d is [board, all_tokens,
\* token_freqs, raised, iters, cells_left]: iters counts the iterations begun
\* and cells_left is len(all_pos) when the loop was left.  draws is the sequence of the pairs <<token_draw,
\* pos_draw>> the generator yields.  The values erase returns are dropped, as
\* in the code, so the three lists keep their lengths; a loop that is still
\* running when the draws are used up is reported as "unfinished".
RECURSIVE draw_loop(_, _, _, _)
draw_loop(d, team, all_pos, draws) ==
    IF all_pos = << >> THEN [d EXCEPT !.cells_left = 0]
    ELSE IF draws = << >> THEN [d EXCEPT !.raised = "unfinished", !.cells_left = Len(all_pos)]
    ELSE LET token_draw == draws[1][1]
             pos_draw == draws[1][2]
             token == d.all_tokens[token_draw + 1]
             version == d.token_freqs[token_draw + 1]
             freqs == [d.token_freqs EXCEPT ![token_draw + 1] = @ - 1]
             e1 == IF freqs[token_draw + 1] <= 0
                     THEN IF erase(d.all_tokens, PyInt(token_draw)).raised # ""
                            THEN erase(d.all_tokens, PyInt(token_draw)).raised
                            ELSE erase(freqs, PyInt(token_draw)).raised
                     ELSE ""
             pos == all_pos[pos_draw + 1]
             e2 == erase(all_pos, PyList(d.all_tokens)).raised
             d1 == [d EXCEPT !.token_freqs = freqs, !.iters = @ + 1,
                             !.cells_left = Len(all_pos)]
         IN  IF e1 # "" THEN [d1 EXCEPT !.raised = e1]
             ELSE IF e2 # "" THEN [d1 EXCEPT !.raised = e2]
             ELSE draw_loop([d1 EXCEPT !.board[pos] =
                                 [Piece(token, team, pos) EXCEPT !.version = version]],
                            team, all_pos, Tail(draws))

\* the body of "for team in Team" of draw_board: fixed is the team's fixed
\* setup, None or <<setup>>
draw_team(d, team, fixed, draws) ==
    IF d.raised # "" THEN d
    ELSE IF fixed # None
      THEN [d EXCEPT !.board =
              [c \in Cells |->
                  IF \E k \in DOMAIN fixed[1] : fixed[1][k] # -1 /\ SetupPos(team, k) = c
                    THEN LET k == CHOOSE x \in DOMAIN fixed[1] :
                                      fixed[1][x] # -1 /\ SetupPos(team, x) = c
                         IN  Piece(fixed[1][k], team, c)
                    ELSE d.board[c]]]
    ELSE draw_loop(d, team, all_pos_of(team), draws)

\* Game.draw_board(): fixed_setups is self.fixed_setups
draw_board(fixed_setups, draws) ==
    LET d0 == [board |-> [c \in Cells |-> NoPiece], all_tokens |-> all_tokens_0,
               token_freqs |-> token_freqs_0, raised |-> "", iters |-> 0,
               cells_left |-> 0]
        d1 == draw_team(d0, blue, fixed_setups[1], draws)
        d2 == draw_team(d1, red, fixed_setups[2], draws)
    IN  IF d2.raised # ""
          THEN [raised |-> d2.raised, board |-> d2.board, iters |-> d2.iters,
                cells_left |-> d2.cells_left]
        ELSE [raised |-> "", iters |-> d2.iters, cells_left |-> d2.cells_left,
              board |-> [c \in Cells |->
                            IF c \in obstacle_positions
                              THEN [Piece(99, 99, c) EXCEPT !.hidden = FALSE]
                              ELSE d2.board[c]]]

\* Game.reset() of the modular engine: draw_board() is evaluated first and
\* reads self.rng_state, then the starting team is chosen with the same
\* generator.  g is the instance: an attribute is None until it is assigned.
reset(g, draws, start) ==
    IF g.rng_state = None THEN [g EXCEPT !.raised = "AttributeError"]
    ELSE LET r == draw_board(<<g.fixed_setups[blue], g.fixed_setups[red]>>, draws)
         IN  IF r.raised # "" THEN [g EXCEPT !.raised = r.raised]
             ELSE [g EXCEPT !.state =
                      Some([board |-> r.board, starting_team |-> start, turn_counter |-> 0,
                            history |-> << >>, dead_pieces |-> compute_dead_pieces(r.board)])]

\* one round of "for team in Team" of Game.__init__, lines 37-41: the walrus
\* binds setup to the value of the comparison, and tuple() of a bool raises
store_fixed_setup(g, fixed_setups, team) ==
    IF g.raised # "" THEN g
    ELSE IF fixed_setups = PyNone THEN [g EXCEPT !.raised = "TypeError"]
    ELSE LET setup == PyBool(fixed_setups[team + 1] # None)
         IN  IF Truthy(setup) THEN [g EXCEPT !.raised = "TypeError"]
             ELSE [g EXCEPT !.fixed_setups = DictSet(@, team, None)]

\* Game.__init__(agent0, agent1, state=state_arg, fixed_setups=fixed_setups,
\* seed=seed): the instance as far as it was built and the exception raised
Game(state_arg, fixed_setups, seed, draws, start) ==
    LET g0 == [fixed_setups |-> << >>, state |-> None, rng_state |-> None, raised |-> ""]
        g1 == store_fixed_setup(store_fixed_setup(g0, fixed_setups, blue), fixed_setups, red)
        g2 == IF g1.raised # "" THEN g1
              ELSE IF state_arg # None
                THEN [g1 EXCEPT !.state =
                         Some([state_arg[1] EXCEPT
                                  !.dead_pieces = compute_dead_pieces(state_arg[1].board)])]
              ELSE reset(g1, draws, start)
    IN  IF g2.raised # "" THEN g2 ELSE [g2 EXCEPT !.rng_state = Some(seed)]

\* the indices of the setup array, np.empty((row_offset, game_dim))
SetupIdx == (0 .. (row_offset - 1)) \X Idx

\* flag positions in the row in front of the setup rows
flag_positions_FrontRow(team) ==
    [j \in 1 .. game_dim |->
        <<IF team = 0 THEN game_dim - row_offset - 1 ELSE row_offset, j - 1>>]

\* _draw_random_setup: flag_positions, the cells of the team's last row
flag_positions(team) ==
    [j \in 1 .. game_dim |-> <<IF team = 0 THEN game_dim - 1 ELSE 0, j - 1>>]

\* _draw_random_setup: positions_agent_0 / positions_agent_1 before the flag
\* position is removed
positions_agent(team) ==
    [n \in 1 .. (row_offset * game_dim) |->
        <<(IF team = 0 THEN game_dim - row_offset ELSE 0) + ((n - 1) \div game_dim),
          (n - 1) % game_dim>>]

\* the index of the setup array a piece on pos is stored under
setup_index(team, pos) ==
    IF team = 0 THEN <<game_dim - 1 - pos[1], game_dim - 1 - pos[2]>> ELSE pos

\* np.random.choice(types, n, replace=False): the sequences of n entries drawn
\* from the list without replacement; cnt[r] is the number of entries r left
RECURSIVE choice_without_replacement(_, _)
choice_without_replacement(cnt, n) ==
    IF n = 0 THEN {<< >>}
    ELSE UNION {{<<r>> \o rest :
                    rest \in choice_without_replacement([cnt EXCEPT ![r] = @ - 1], n - 1)} :
                r \in {x \in DOMAIN cnt : cnt[x] > 0}}

\* types_available without the flag, and nr_pieces
nr_pieces == Len(types_available) - 1

TypesDraws ==
    choice_without_replacement([r \in Ranks \ {0} |-> Inventory(r)], nr_pieces)

\* Game._draw_random_setup(types_available, team, game_dim) with the random
\* choices flag_choice (an index from 0) and types_draw
_draw_random_setup(team, flag_choice, types_draw) ==
    LET flag_position == flag_positions(team)[flag_choice + 1]
        keep(pos) == pos # flag_position
        positions == SelectSeq(positions_agent(team), keep)
    IN  IF nr_pieces > Len(positions)
          THEN [raised |-> "IndexError", setup |-> [x \in SetupIdx |-> NoPiece]]
        ELSE [raised |-> "",
              setup |-> [x \in SetupIdx |->
                  IF x = setup_index(team, flag_position)
                    THEN Piece(0, team, flag_position)
                  ELSE IF \E idx \in 1 .. nr_pieces : setup_index(team, positions[idx]) = x
                    THEN LET idx == CHOOSE i \in 1 .. nr_pieces :
                                        setup_index(team, positions[i]) = x
                         IN  Piece(types_draw[idx], team, positions[idx])
                  ELSE NoPiece]]

(***************************************************************************)
(* SpecDraw: one call of the modular draw_board, or of the legacy          *)
(* _draw_random_setup, for every outcome of the random choices; or the     *)
(* construction of a modular Game, followed by reset() where it succeeds.  *)
(***************************************************************************)
\* the draws of the first round of the loop of draw_board
BoardDraws == {<<d>> : d \in (0 .. (Len(all_tokens_0) - 1)) \X (0 .. (row_offset * game_dim - 1))}

\* the arguments of the constructor: a State or none, fixed_setups (the
\* default None, or a dict with a setup or None per team), the seed, and the
\* starting team the generator would choose
GameArgs ==
    {[state |-> st, fixed_setups |-> fs, seed |-> seed, start |-> start] :
        st \in {None} \cup {Some([board |-> _build_board_from_setups(sp[1], sp[2]),
                                  starting_team |-> blue, turn_counter |-> 0,
                                  history |-> << >>, dead_pieces |-> None]) :
                             sp \in {<<T0S, T1S>>}},
        fs \in {PyNone, <<None, None>>, <<Some(T0S), None>>, <<None, Some(T1S)>>,
                <<Some(T0S), Some(T1S)>>},
        seed \in {0, 1},
        start \in {blue, red}}

InitDraw ==
    /\ \/ \E draws \in BoardDraws :
            drawn = [fn |-> "draw_board", team |-> 0 - 1, flag_choice |-> 0 - 1,
                     draws |-> draws, done |-> FALSE, raised |-> "", result |-> None,
                     iters |-> 0, cells_left |-> 0, args |-> None]
       \/ \E team \in Teams, flag_choice \in 0 .. (game_dim - 1), types_draw \in TypesDraws :
            drawn = [fn |-> "_draw_random_setup", team |-> team, flag_choice |-> flag_choice,
                     draws |-> types_draw, done |-> FALSE, raised |-> "", result |-> None,
                     iters |-> 0, cells_left |-> 0, args |-> None]
       \/ \E args \in GameArgs, draws \in BoardDraws :
            drawn = [fn |-> "Game", team |-> 0 - 1, flag_choice |-> 0 - 1,
                     draws |-> draws, done |-> FALSE, raised |-> "", result |-> None,
                     iters |-> 0, cells_left |-> 0, args |-> args]
    /\ LegacyIdle /\ ReplayIdle /\ ModularIdle /\ ActionRepIdle /\ CheckpointIdle

\* Game(agent0, agent1, state, fixed_setups=..., seed=...)
Construct ==
    /\ drawn.fn = "Game" /\ ~drawn.done
    /\ LET g == Game(drawn.args.state, drawn.args.fixed_setups, drawn.args.seed,
                     drawn.draws, drawn.args.start)
       IN  drawn' = [drawn EXCEPT !.done = TRUE, !.raised = g.raised, !.result = Some(g)]
    /\ UNCHANGED <<legacy_vars, replay_vars, modular_vars, action_rep, ckpt>>

\* reset() of a Game that was constructed
Reset ==
    /\ drawn.fn = "Game" /\ drawn.done /\ drawn.raised = ""
    /\ LET g == reset(drawn.result[1], drawn.draws, drawn.args.start)
       IN  drawn' = [drawn EXCEPT !.fn = "reset", !.raised = g.raised, !.result = Some(g)]
    /\ UNCHANGED <<legacy_vars, replay_vars, modular_vars, action_rep, ckpt>>

\* draw_board() of a Game whose fixed_setups are None for both teams
DrawBoard ==
    /\ drawn.fn = "draw_board" /\ ~drawn.done
    /\ LET r == draw_board(<<None, None>>, drawn.draws)
       IN  drawn' = [drawn EXCEPT !.done = TRUE, !.raised = r.raised, !.result = r.board,
                                  !.iters = r.iters, !.cells_left = r.cells_left]
    /\ UNCHANGED <<legacy_vars, replay_vars, modular_vars, action_rep, ckpt>>

DrawRandomSetup ==
    /\ drawn.fn = "_draw_random_setup" /\ ~drawn.done
    /\ LET r == _draw_random_setup(drawn.team, drawn.flag_choice, drawn.draws)
       IN  drawn' = [drawn EXCEPT !.done = TRUE, !.raised = r.raised, !.result = r.setup]
    /\ UNCHANGED <<legacy_vars, replay_vars, modular_vars, action_rep, ckpt>>

NextDraw == DrawBoard \/ DrawRandomSetup \/ Construct \/ Reset

SpecDraw == InitDraw /\ [][NextDraw]_vars

\* C16: draw_board of a Game without fixed setups returns a board that holds,
\* for each team, every rank as often as the specification says (one flag),
\* all inside the team's setup rows, on distinct cells, and nothing but the
\* obstacle on an obstacle cell.
C16_DrawBoard ==
    (drawn.fn = "draw_board" /\ drawn.done)
        => /\ drawn.raised = ""
           /\ \A team \in Teams, r \in Ranks :
                 Cardinality({c \in Cells :
                                 /\ drawn.result[c].team = team
                                 /\ drawn.result[c].type = r
                                 /\ \E i \in 1 .. row_offset : c[1] = setup_rows(team)[i]})
                     = Inventory(r)
           /\ \A c \in obstacle_positions : drawn.result[c].type = 99

\* C24: a Game constructed without a State, whatever its fixed_setups and
\* seed, raises nothing and ends with its generator set and with a State
\* whose starting team is blue or red.
C24_ConstructWithoutState ==
    (drawn.fn = "Game" /\ drawn.done /\ drawn.args.state = None)
        => /\ drawn.raised = ""
           /\ drawn.result[1].rng_state # None
           /\ drawn.result[1].state # None
           /\ drawn.result[1].state[1].starting_team \in {blue, red}

\* C26: a Game constructed with a fixed setup for a team stores that setup
\* for the team (and None for a team without one), raising nothing.
C26_FixedSetups ==
    (/\ drawn.fn = "Game" /\ drawn.done
     /\ drawn.args.fixed_setups # PyNone
     /\ \E team \in Teams : drawn.args.fixed_setups[team + 1] # None)
        => /\ drawn.raised = ""
           /\ \A team \in Teams :
                 /\ team \in DOMAIN drawn.result[1].fixed_setups
                 /\ drawn.result[1].fixed_setups[team] = drawn.args.fixed_setups[team + 1]

\* C23: the drawing loop of draw_board ends normally for a team without a
\* fixed setup: with both teams drawn, draw_board raises nothing, has gone
\* through exactly as many iterations as the two teams have setup cells, and
\* has no candidate cell left.
C23_DrawLoopTerminates ==
    (drawn.fn = "draw_board" /\ drawn.done)
        => /\ drawn.raised = ""
           /\ drawn.iters = 2 * row_offset * game_dim
           /\ drawn.cells_left = 0

DigitChars == <<"0", "1", "2", "3", "4", "5", "6", "7", "8", "9">>

\* str(n) of a natural number
RECURSIVE str(_)
str(n) == IF n < 10 THEN <<DigitChars[n + 1]>> ELSE str(n \div 10) \o <<DigitChars[(n % 10) + 1]>>

\* the elements of a list
Elems(l) == {l[i] : i \in DOMAIN l}

\* list(range(lo, hi)) starting from 0 whatever lo is
list_range_FromZero(lo, hi) == [i \in 1 .. (hi - lo) |-> i - 1]

\* list(range(lo, hi))
list_range(lo, hi) == [i \in 1 .. (hi - lo) |-> lo + i - 1]

\* the loop "while type_v in action_rep_pieces" of get_action_rep
RECURSIVE free_label(_, _, _)
free_label(type_v, version, pieces) ==
    IF type_v \in Elems(pieces)
      THEN free_label(SubSeq(type_v, 1, Len(type_v) - 1) \o str(version + 1), version + 1, pieces)
      ELSE type_v

\* the relative moves of a piece of a rank
actions_of(type_) ==
    IF type_ = 2
      THEN [i \in 1 .. (game_dim - 1) |-> <<i, 0>>]
             \o [i \in 1 .. (game_dim - 1) |-> <<0, i>>]
             \o [i \in 1 .. (game_dim - 1) |-> <<0 - i, 0>>]
             \o [i \in 1 .. (game_dim - 1) |-> <<0, 0 - i>>]
      ELSE <<<<1, 0>>, <<0, 1>>, <<0 - 1, 0>>, <<0, 0 - 1>>>>

\* the loop "for type_ in self.types_available" of get_action_rep, from the
\* i-th entry on; acc is [dict, moves, pieces]
RECURSIVE build_action_rep(_, _, _)
build_action_rep(types, i, acc) ==
    IF i > Len(types) THEN acc
    ELSE LET type_ == types[i]
             type_v == free_label(str(type_) \o <<"_">> \o str(1), 1, acc.pieces)
             actions == actions_of(type_)
         IN  IF type_ \in {0, 11} THEN build_action_rep(types, i + 1, acc)
             ELSE build_action_rep(types, i + 1,
                    [dict |-> DictSet(acc.dict, type_v,
                                      list_range(Len(acc.moves), Len(acc.moves) + Len(actions))),
                     moves |-> acc.moves \o actions,
                     pieces |-> acc.pieces \o [k \in 1 .. Len(actions) |-> type_v]])

\* Game.get_action_rep(): the instance after the call
get_action_rep(ar) ==
    LET built == build_action_rep(ar.types, 1, [dict |-> << >>, moves |-> << >>,
                                                pieces |-> << >>])
        ar1 == IF None \in {ar.action_rep_dict, ar.action_rep_moves, ar.action_rep_pieces}
                 THEN [ar EXCEPT !.action_rep_dict = Some(built.dict),
                                 !.action_rep_moves = Some(built.moves),
                                 !.action_rep_pieces = Some(built.pieces),
                                 !.builds = @ + 1]
                 ELSE ar
    IN  [ar1 EXCEPT !.returned = <<ar1.action_rep_dict[1], ar1.action_rep_moves[1],
                                   ar1.action_rep_pieces[1]>>,
                    !.calls = @ + 1]

(***************************************************************************)
(* SpecActionRep: get_action_rep called repeatedly on a Game with some     *)
(* inventory.                                                              *)
(***************************************************************************)
\* the inventories: every list of ranks up to a length, the 5x5 inventory, and
\* one with more than ten pieces of a rank
InventoryInputs ==
    UNION {[1 .. n -> Ranks] : n \in 0 .. MaxInventory}
        \cup {types_available, [i \in 1 .. 12 |-> IF i = 4 THEN 1 ELSE 2]}

InitActionRep ==
    /\ \E types \in InventoryInputs :
        action_rep = [types |-> types, action_rep_dict |-> None, action_rep_moves |-> None,
                      action_rep_pieces |-> None, returned |-> None, builds |-> 0, calls |-> 0]
    /\ LegacyIdle /\ ReplayIdle /\ ModularIdle /\ DrawIdle /\ CheckpointIdle

GetActionRep ==
    /\ action_rep.calls < MaxRepCalls
    /\ action_rep' = get_action_rep(action_rep)
    /\ UNCHANGED <<legacy_vars, replay_vars, modular_vars, drawn, ckpt>>

NextActionRep == GetActionRep

SpecActionRep == InitActionRep /\ [][NextActionRep]_vars

\* C18: after get_action_rep, every index list of action_rep_dict is a run of
\* consecutive indices, two lists share no index, together they are exactly
\* 0 .. len(action_rep_moves) - 1, action_rep_pieces[i] is the label whose
\* list holds i, and every call returns the structures built by the first one.
C18_ActionRep ==
    action_rep.calls >= 1
        => LET dict == action_rep.returned[1]
               moves == action_rep.returned[2]
               pieces == action_rep.returned[3]
           IN  /\ \A l \in DOMAIN dict :
                     /\ dict[l] # << >>
                     /\ \A i \in 1 .. (Len(dict[l]) - 1) : dict[l][i + 1] = dict[l][i] + 1
               /\ \A l1, l2 \in DOMAIN dict :
                     l1 # l2 => Elems(dict[l1]) \cap Elems(dict[l2]) = {}
               /\ UNION {Elems(dict[l]) : l \in DOMAIN dict} = 0 .. (Len(moves) - 1)
               /\ Len(pieces) = Len(moves)
               /\ \A i \in 0 .. (Len(moves) - 1) :
                     /\ pieces[i + 1] \in DOMAIN dict
                     /\ i \in Elems(dict[pieces[i + 1]])
               /\ action_rep.builds = 1
               /\ action_rep.returned = <<action_rep.action_rep_dict[1],
                                          action_rep.action_rep_moves[1],
                                          action_rep.action_rep_pieces[1]>>

\* C18 witness: the second call on the 5x5 inventory, whose third scout has
\* the indices 36 .. 51
C18_Witness ==
    /\ action_rep.calls = 2
    /\ action_rep.types = types_available
    /\ Len(action_rep.returned[2]) = 64
    /\ action_rep.returned[1][<<"2", "_", "3">>] = list_range(36, 52)
    /\ action_rep.returned[3][37] = <<"2", "_", "3">>

(***************************************************************************)
(* NetworkWrapper checkpoints (src/stratego/learning/models.py).  A module *)
(* is the function from its parameter names to their values; a name is the *)
(* sequence of its dot-separated parts.  The variable ckpt is the record   *)
(*   [saver, loader, folder, file, load]:                                  *)
(* the parameters of the network inside the wrapper that saves and inside  *)
(* the freshly constructed one that loads, whether the folder exists, the  *)
(* checkpoint file (None while there is none), and what the last           *)
(* load_checkpoint call did (None before it).                              *)
(***************************************************************************)
ParamNames == {<<"conv", "weight">>, <<"fc", "weight">>, <<"fc", "bias">>}

ParamValues == {0, 1}

\* the networks of one architecture or another
Networks == UNION {[names -> ParamValues] : names \in SUBSET ParamNames}

\* self.net.state_dict(): the parameters of the network under their names
net_state_dict(net) == net

\* the names torch.nn.Module gives the parameters of a NetworkWrapper: its
\* only submodule is registered as the attribute net
wrapper_keys(net) == {<<"net">> \o name : name \in DOMAIN net}

\* self.load_state_dict(state_dict) of the wrapper, strict: the entries whose
\* names it knows are copied, and any missing or unexpected name raises
\* RuntimeError
load_state_dict(net, state_dict) ==
    LET keys == wrapper_keys(net)
    IN  [net |-> [name \in DOMAIN net |->
                     IF (<<"net">> \o name) \in DOMAIN state_dict
                       THEN state_dict[<<"net">> \o name]
                       ELSE net[name]],
         raised |-> IF keys = DOMAIN state_dict THEN "" ELSE "RuntimeError"]

\* NetworkWrapper.save_checkpoint(folder, filename): the folder and the file
save_checkpoint(ck) ==
    [ck EXCEPT !.folder = TRUE,
               !.file = Some([state_dict |-> net_state_dict(ck.saver)])]

\* NetworkWrapper.load_checkpoint(folder, filename) of the fresh wrapper
load_checkpoint(ck) ==
    IF ck.file = None
      THEN [ck EXCEPT !.load = Some([found |-> FALSE, raised |-> "ValueError"])]
    ELSE LET l == load_state_dict(ck.loader, ck.file[1].state_dict)
         IN  [ck EXCEPT !.loader = l.net,
                        !.load = Some([found |-> TRUE, raised |-> l.raised])]

(***************************************************************************)
(* SpecCheckpoint: a wrapper saves its network, a fresh wrapper around a   *)
(* network of the same architecture loads the file.                        *)
(***************************************************************************)
InitCheckpoint ==
    /\ \E saver \in Networks, folder \in BOOLEAN :
        \E loader \in [DOMAIN saver -> ParamValues] :
            ckpt = [saver |-> saver, loader |-> loader, folder |-> folder,
                    file |-> None, load |-> None]
    /\ LegacyIdle /\ ReplayIdle /\ ModularIdle /\ DrawIdle /\ ActionRepIdle

SaveCheckpoint ==
    /\ ckpt' = save_checkpoint(ckpt)
    /\ UNCHANGED <<legacy_vars, replay_vars, modular_vars, drawn, action_rep>>

LoadCheckpoint ==
    /\ ckpt' = load_checkpoint(ckpt)
    /\ UNCHANGED <<legacy_vars, replay_vars, modular_vars, drawn, action_rep>>

NextCheckpoint == SaveCheckpoint \/ LoadCheckpoint

SpecCheckpoint == InitCheckpoint /\ [][NextCheckpoint]_vars

\* C19: load_checkpoint of a file written by save_checkpoint, into a fresh
\* wrapper around a network of the same architecture, raises nothing and
\* leaves the network with exactly the parameters that were saved.
C19_CheckpointRoundTrip ==
    (ckpt.load # None /\ ckpt.load[1].found)
        => /\ ckpt.load[1].raised = ""
           /\ ckpt.loader = ckpt.saver

\* C20: the first run_step after reset() finds move_count 1, so team 1 moves
\* first; a run_step that returns 0 raises Game.move_count by one, which
\* changes the active team move_count % 2, and sets the move_count of both
\* agents to the new value; a run_step that returns anything else leaves
\* move_count as it was.
C20_TurnProtocol ==
    [][/\ result = None => move_count = 1 /\ move_count % 2 = 1
       /\ result' = Some(0)
            => /\ move_count' = move_count + 1
               /\ move_count' % 2 = 1 - (move_count % 2)
               /\ \A i \in Teams : agents'[i].move_count = move_count'
       /\ result' # Some(0) => move_count' = move_count]_vars

\* C20 witness: three run_step calls have returned 0, a fourth has ended the
\* game
C20_Witness ==
    /\ result \notin {None, Some(0)}
    /\ move_count = 4
    /\ agents[0].move_count = 4 /\ agents[1].move_count = 4
    /\ agents[0].moves_seen = 4

====
